---- MODULE Spec2Model ----
(***************************************************************************)
(* Batch stock analysis: the orchestrator (BatchStockAnalyzer.batch_analyze)*)
(* fans analyze_single_stock tasks out to a ThreadPoolExecutor, collects    *)
(* the futures as they complete, tallies success/failure and updates the    *)
(* BatchAnalysisMonitor, directly and through the ErrorHandler.             *)
(*   src/stock/batch_analysis.py, src/stock/batch_analysis_monitor.py       *)
(*                                                                          *)
(* Three specifications share the actions and differ in the inputs they     *)
(* draw:                                                                    *)
(*   SpecAnalyzer  one symbol, every analysis_types list up to MaxTypes,    *)
(*                 every collaborator outcome; the per-task history         *)
(*                 variables (calls, updates, handled) are recorded         *)
(*   Spec          up to NumStocks symbols on the pool sizes of PoolSizes   *)
(*   SpecPools     a run on one worker followed by a run of the same        *)
(*                 symbols against the same stubs on any pool size          *)
(***************************************************************************)
EXTENDS Integers, Sequences, FiniteSets, TLC

(* ---------------------------------------------------------------- bounds *)
NumStocks == 2          \* longest config.stock_codes list explored
MaxTypes == 2           \* longest config.analysis_types list explored
PoolSizes == {1, 2}     \* config.max_workers explored: serial and concurrent
Threads == {1, 2}       \* client threads calling into one Monitor
MaxOps == 3             \* Monitor calls made by the clients in one behaviour
MaxTime == 1            \* ticks of the clock
MaxWords == 2           \* words of an error message
MaxResults == 2         \* results given to _generate_summary_stats
MaxClock == 61          \* seconds the clock of a ProgressReporter runs

\* stock codes, in the order the example runs of the repository list them
CodeAt(i) ==
    CASE i = 1 -> "000001"
      [] i = 2 -> "600519"
      [] i = 3 -> "300750"
      [] OTHER -> "601318"
Codes == {CodeAt(i) : i \in 1..NumStocks}
KnownTypes == {"basic", "technical", "news", "chip", "comprehensive"}
TypeChoices == {"basic", "technical", "other"}
BatchTypes == <<"basic", "technical">>

VARIABLES
    mode,               \* which inputs are drawn: single, batch, first, second
    enable_monitoring,  \* BatchStockAnalyzer.enable_monitoring
    config,             \* BatchAnalysisConfig of the current run
    mainpc,             \* position of batch_analyze: idle, collecting, done
    results,            \* batch_analyze: results
    success_count,      \* batch_analyze: success_count
    failed_count,       \* batch_analyze: failed_count
    pc,                 \* per task: position of analyze_single_stock / future
    idx,                \* per task: loop index i (1-based) of the type loop
    errors,             \* per task: errors list (type tag of each message)
    analysis_data,      \* per task: analysis_data dict, key -> payload kind
    task_result,        \* per task: value held by the future
    monitor,            \* BatchAnalysisMonitor fields
    calls,              \* history, per task: identity, collaborator and
                        \* summary calls with their outcomes
    updates,            \* history, per task: status labels given to _send_update
    handled,            \* history, per task: contexts given to handle_error
    memo,               \* stub table of a comparison (SpecPools)
    ref,                \* outcome of the first run of a comparison
    advice,             \* history, per task: should_retry of the policies
                        \* handle_error returned to the type loop
    tpc,                \* per client thread: position inside a Monitor call
    arg,                \* per client thread: arguments of the call in progress
    lock,               \* BatchAnalysisMonitor.stats_lock: holder, 0 when free
    snap,               \* per client thread: AnalysisStats under construction
    seen,               \* history, per client thread: field values the Monitor
                        \* held since get_current_stats was entered
    now,                \* datetime.now(), in ticks
    callback,           \* BatchAnalysisMonitor.callback: none, quiet, raising
    stopped,            \* history: stop_monitoring has been called
    ops,                \* number of Monitor calls made by the clients
    error,              \* str(error) given to the ErrorHandler
    verdict,            \* what _classify_error / handle_error returned
    trail,              \* history: what batch_analyze did once the pool had
                        \* drained, in order, with the outcome of each write
    summary_stats,      \* what _generate_summary_stats returned
    reporter            \* ProgressReporter fields and the reports it printed

vars == <<mode, enable_monitoring, config, mainpc, results, success_count,
          failed_count, pc, idx, errors, analysis_data, task_result, monitor,
          calls, updates, handled, memo, ref, advice, tpc, arg, lock, snap,
          seen, now, callback, stopped, ops, error, verdict, trail,
          summary_stats, reporter>>

\* the variables of the Monitor clients and of the classifier
othervars == <<tpc, arg, lock, snap, seen, now, callback, stopped, ops, error,
               verdict, summary_stats, reporter>>

(* ------------------------------------------------------------- helpers *)
RECURSIVE SeqsUpTo(_, _)
SeqsUpTo(S, n) ==
    IF n = 0 THEN {<<>>}
    ELSE LET shorter == SeqsUpTo(S, n - 1)
         IN shorter \cup {Append(s, x) : s \in {q \in shorter : Len(q) = n - 1}, x \in S}

Tasks == DOMAIN config.stock_codes
CodeOf(t) == config.stock_codes[t]

\* analysis_data key written by each branch of the type loop
DataKey(tag) ==
    CASE tag = "basic" -> "basic_info"
      [] tag = "technical" -> "technical_analysis"
      [] tag = "news" -> "news_analysis"
      [] tag = "chip" -> "chip_analysis"
      [] tag = "comprehensive" -> "comprehensive_analysis"
      [] OTHER -> "none"

\* context passed to handle_error by each branch of the type loop
ContextOf(tag) ==
    CASE tag = "basic" -> "ctx_basic"
      [] tag = "technical" -> "ctx_technical"
      [] tag = "news" -> "ctx_news"
      [] tag = "chip" -> "ctx_chip"
      [] tag = "comprehensive" -> "ctx_comprehensive"
      [] OTHER -> "none"

DataKeys == {DataKey(k) : k \in KnownTypes}
EmptyData == [k \in DataKeys |-> "absent"]

\* StockAnalysisResult; error_message is the list of joined messages,
\* <<>> standing for None
StockAnalysisResult(code, status, msg, data) ==
    [stock_code |-> code, status |-> status, error_message |-> msg,
     analysis_data |-> data]

NoResult == StockAnalysisResult("", "none", <<>>, EmptyData)

(* ------------------------------------------------- BatchAnalysisMonitor *)
NewMonitor(total) ==
    [total_stocks |-> total, completed_stocks |-> 0, failed_stocks |-> 0,
     current_stock |-> "", is_running |-> FALSE, start_time |-> now,
     stock_times |-> [c \in Codes |-> "none"], error_log |-> <<>>]

\* variant: starting resets the counters and the error log
start_monitoring_resets(m) ==
    [m EXCEPT !.is_running = TRUE, !.start_time = now, !.completed_stocks = 0,
              !.failed_stocks = 0, !.error_log = <<>>]

start_monitoring(m) == [m EXCEPT !.is_running = TRUE, !.start_time = now]

stop_monitoring(m) == [m EXCEPT !.is_running = FALSE]

update_stock_start(m, code) ==
    [m EXCEPT !.current_stock = code, !.stock_times[code] = "started"]

\* variant: a symbol whose start was never recorded is ignored
update_stock_complete_started_only(m, code, success, error_message) ==
    IF m.stock_times[code] = "none" THEN m
    ELSE IF success
    THEN [m EXCEPT !.stock_times[code] = "ended", !.completed_stocks = @ + 1]
    ELSE [m EXCEPT !.stock_times[code] = "ended", !.failed_stocks = @ + 1,
                   !.error_log = Append(@, [stock_code |-> code,
                                            error |-> error_message])]

update_stock_complete(m, code, success, error_message) ==
    LET m1 == IF m.stock_times[code] # "none"
              THEN [m EXCEPT !.stock_times[code] = "ended"]
              ELSE m
    IN IF success
       THEN [m1 EXCEPT !.completed_stocks = @ + 1]
       ELSE [m1 EXCEPT !.failed_stocks = @ + 1,
                       !.error_log = Append(@, [stock_code |-> code,
                                                error |-> error_message])]

\* status label of the ProgressUpdate sent by update_stock_complete
CompleteLabel(success) == IF success THEN "completed" ELSE "failed"

\* ErrorHandler.handle_error: str(error) goes to the monitor as a failure
handle_error(m, code) == update_stock_complete(m, code, FALSE, <<"raw">>)

\* `if self.monitor:` / `if self.error_handler:` guards
WithMonitor(m) == IF enable_monitoring THEN m ELSE monitor

\* the history variables are recorded in the single-symbol specification
Recording == mode = "single"
Sent(t, labels) ==
    IF Recording /\ enable_monitoring THEN updates[t] \o labels ELSE updates[t]
Handled(t, ctx) ==
    IF Recording /\ enable_monitoring THEN Append(handled[t], ctx) ELSE handled[t]
Advised(t, should_retry) ==
    IF Recording /\ enable_monitoring
    THEN Append(advice[t], should_retry)
    ELSE advice[t]
Called(t, pos, tag, outcome) ==
    IF Recording
    THEN Append(calls[t], [pos |-> pos, tag |-> tag, outcome |-> outcome])
    ELSE calls[t]

(* ---------------------------------------------------- inputs and stubs *)
\* n distinct symbols, and the same list with its first symbol submitted again
DistinctList(n) == [i \in 1..n |-> CodeAt(i)]
RepeatList(n) == [i \in 1..n |-> IF i = n THEN CodeAt(1) ELSE CodeAt(i)]

StockLists ==
    IF mode = "single"
    THEN SeqsUpTo(Codes, 1)
    ELSE {DistinctList(n) : n \in 0..NumStocks}
            \cup {RepeatList(n) : n \in 2..NumStocks}

TypeLists ==
    IF mode = "single" THEN SeqsUpTo(TypeChoices, MaxTypes) ELSE {BatchTypes}

WorkerCounts == IF mode \in {"first", "report"} THEN {1} ELSE PoolSizes

\* config.max_retry: none, or the default of the dataclass
RetryCounts == IF mode = "single" THEN {0, 2} ELSE {2}

\* a collaborator returns a payload, a payload with an 'error' key, or raises
CollaboratorOutcomes ==
    IF mode = "single" THEN {"ok", "errkey", "raise"} ELSE {"ok", "raise"}

MemoKeys == {"entry", "identity", "summary"} \cup KnownTypes
EmptyMemo == [c \in Codes |-> [k \in MemoKeys |-> "unset"]]
Comparing == mode \in {"first", "second"}

\* in a comparison the same call for the same symbol always behaves the same
StubAllows(code, key, outcome) ==
    Comparing => memo[code][key] \in {"unset", outcome}

StubRecord(code, key, outcome) ==
    IF Comparing THEN [memo EXCEPT ![code][key] = outcome] ELSE memo

(* ------------------------------------------------------- ErrorHandler *)
\* str(error): a message is the sequence of its characters
kw_network == <<"n", "e", "t", "w", "o", "r", "k">>
kw_connection == <<"c", "o", "n", "n", "e", "c", "t", "i", "o", "n">>
kw_timeout == <<"t", "i", "m", "e", "o", "u", "t">>
kw_http == <<"h", "t", "t", "p">>
kw_data == <<"d", "a", "t", "a">>
kw_parse == <<"p", "a", "r", "s", "e">>
kw_format == <<"f", "o", "r", "m", "a", "t">>
kw_empty == <<"e", "m", "p", "t", "y">>
kw_ai == <<"a", "i">>
kw_llm == <<"l", "l", "m">>
kw_openai == <<"o", "p", "e", "n", "a", "i">>
kw_model == <<"m", "o", "d", "e", "l">>

\* the keyword lists of _classify_error, in the order they are tried
NetworkKeywords == <<kw_network, kw_connection, kw_timeout, kw_http>>
DataKeywords == <<kw_data, kw_parse, kw_format, kw_empty>>
AiKeywords == <<kw_ai, kw_llm, kw_openai, kw_model>>

UpperCase == <<"A", "B", "C", "D", "E", "F", "G", "H", "I", "J", "K", "L", "M", "N", "O", "P", "Q", "R", "S", "T", "U", "V", "W", "X", "Y", "Z">>
LowerCase == <<"a", "b", "c", "d", "e", "f", "g", "h", "i", "j", "k", "l", "m", "n", "o", "p", "q", "r", "s", "t", "u", "v", "w", "x", "y", "z">>

\* str.lower()
LowerChar(c) ==
    IF \E i \in DOMAIN UpperCase : UpperCase[i] = c
    THEN LowerCase[CHOOSE i \in DOMAIN UpperCase : UpperCase[i] = c]
    ELSE c
lower(str) == [i \in 1..Len(str) |-> LowerChar(str[i])]

\* `keyword in error_str`
Contains(keyword, str) ==
    \E i \in 1..(Len(str) - Len(keyword) + 1) :
        SubSeq(str, i, i + Len(keyword) - 1) = keyword

\* `any(keyword in error_str for keyword in [...])`
AnyKeyword(keywords, str) ==
    \E j \in DOMAIN keywords : Contains(keywords[j], str)

\* variant: the data keywords are tried before the network keywords
classify_error_data_first(e) ==
    LET error_str == lower(e) IN
    IF AnyKeyword(DataKeywords, error_str) THEN "data_error"
    ELSE IF AnyKeyword(NetworkKeywords, error_str) THEN "network_error"
    ELSE IF AnyKeyword(AiKeywords, error_str) THEN "ai_error"
    ELSE IF Contains(kw_timeout, error_str) THEN "timeout_error"
    ELSE "unknown_error"

\* variant: 'timeout' is not among the network keywords
classify_error_timeout_apart(e) ==
    LET error_str == lower(e) IN
    IF AnyKeyword(<<kw_network, kw_connection, kw_http>>, error_str)
    THEN "network_error"
    ELSE IF AnyKeyword(DataKeywords, error_str) THEN "data_error"
    ELSE IF AnyKeyword(AiKeywords, error_str) THEN "ai_error"
    ELSE IF Contains(kw_timeout, error_str) THEN "timeout_error"
    ELSE "unknown_error"

\* ErrorHandler._classify_error
classify_error(e) ==
    LET error_str == lower(e) IN
    IF AnyKeyword(NetworkKeywords, error_str) THEN "network_error"
    ELSE IF AnyKeyword(DataKeywords, error_str) THEN "data_error"
    ELSE IF AnyKeyword(AiKeywords, error_str) THEN "ai_error"
    ELSE IF Contains(kw_timeout, error_str) THEN "timeout_error"
    ELSE "unknown_error"

StrategyKeys == {"network_error", "data_error", "ai_error", "timeout_error",
                 "unknown_error"}

\* ErrorHandler.retry_strategies and the records its handlers return
retry_strategies(error_type) ==
    CASE error_type = "network_error" ->
            [should_retry |-> TRUE, retry_delay |-> 5, max_retries |-> 3,
             error_type |-> "network_error", suggestion |-> "retry_network"]
      [] error_type = "data_error" ->
            [should_retry |-> FALSE, error_type |-> "data_error",
             suggestion |-> "check_data_source"]
      [] error_type = "ai_error" ->
            [should_retry |-> TRUE, retry_delay |-> 10, max_retries |-> 2,
             error_type |-> "ai_error", suggestion |-> "retry_ai"]
      [] error_type = "timeout_error" ->
            [should_retry |-> TRUE, retry_delay |-> 3, max_retries |-> 2,
             error_type |-> "timeout_error", suggestion |-> "retry_timeout"]
      [] OTHER ->
            [should_retry |-> FALSE, error_type |-> "unknown_error",
             suggestion |-> "check_logs"]

\* what ErrorHandler.handle_error returns
handle_error_result(e) ==
    LET error_type == classify_error(e) IN
    IF error_type \in StrategyKeys
    THEN retry_strategies(error_type)
    ELSE retry_strategies("unknown_error")

NoVerdict == [call |-> "none"]

\* the words error messages are made of
word_Connection == <<"C", "o", "n", "n", "e", "c", "t", "i", "o", "n">>
word_refused == <<" ", "r", "e", "f", "u", "s", "e", "d">>
word_TIMEOUT == <<"T", "I", "M", "E", "O", "U", "T">>
word_http == <<"h", "t", "t", "p">>
word_Network == <<"N", "e", "t", "w", "o", "r", "k">>
word_data == <<"d", "a", "t", "a">>
word_Parse == <<"P", "a", "r", "s", "e">>
word_format == <<"f", "o", "r", "m", "a", "t">>
word_EMPTY == <<"E", "M", "P", "T", "Y">>
word_AI == <<"A", "I">>
word_llm == <<"l", "l", "m">>
word_OpenAI == <<"O", "p", "e", "n", "A", "I">>
word_model == <<"m", "o", "d", "e", "l">>
word_failed == <<"f", "a", "i", "l", "e", "d">>
word_boom == <<"b", "o", "o", "m">>
word_KeyError == <<"K", "e", "y", "E", "r", "r", "o", "r">>
Words == {word_Connection, word_refused, word_TIMEOUT, word_http, word_Network, word_data, word_Parse, word_format, word_EMPTY,
          word_AI, word_llm, word_OpenAI, word_model, word_failed, word_boom, word_KeyError}

RECURSIVE Join(_)
Join(ws) == IF ws = <<>> THEN <<>> ELSE Head(ws) \o Join(Tail(ws))

\* the messages classified: up to MaxWords words
Messages == {Join(ws) : ws \in SeqsUpTo(Words, MaxWords)}

\* the messages of the exceptions the collaborators raise
RaisedMessages == {word_Connection \o word_refused, word_EMPTY \o word_data,
                   word_boom}

(* ----------------------------------------------- clients of a Monitor *)
NoArg == [code |-> "", success |-> TRUE]

\* AnalysisStats; estimated_remaining is the fraction num / den
NoStats == [total_stocks |-> 0, completed_stocks |-> 0, failed_stocks |-> 0,
            current_stock |-> "", elapsed_time |-> 0,
            estimated_remaining |-> [num |-> 0, den |-> 1]]

\* the positions of a thread inside get_current_stats
StatsPositions == {"stats_estimate", "stats_counts", "stats_rest", "stats_return"}

\* the fields a snapshot is made of
FieldsOf(m) == <<m.total_stocks, m.completed_stocks, m.failed_stocks,
                 m.current_stock>>

\* BatchAnalysisResult.summary_stats before _generate_summary_stats has run
NoSummaryStats == [computed |-> FALSE]

\* ProgressReporter.__init__; checked_at, last_call, reads and reports are
\* history: when should_report last read the clock, what the last call
\* did, how many snapshots were read, and when each report was finished
NewReporter == [last_report_time |-> now, pos |-> "idle", checked_at |-> now,
                last_call |-> "none", reads |-> 0, reports |-> <<>>]

(* --------------------------------------------------------------- Init *)
EmptyConfig == [stock_codes |-> <<>>, analysis_types |-> <<>>, max_workers |-> 1,
                max_retry |-> 2]
NoRef == [success_count |-> 0, failed_count |-> 0,
          tally |-> [c \in Codes |-> [st \in {"success", "partial", "failed"} |-> 0]]]

InitCommon ==
    /\ config = EmptyConfig
    /\ mainpc = "idle"
    /\ success_count = 0
    /\ failed_count = 0
    /\ pc = <<>>
    /\ idx = <<>>
    /\ errors = <<>>
    /\ analysis_data = <<>>
    /\ task_result = <<>>
    /\ calls = <<>>
    /\ updates = <<>>
    /\ handled = <<>>
    /\ memo = EmptyMemo
    /\ ref = NoRef
    /\ advice = <<>>
    /\ tpc = [th \in Threads |-> "idle"]
    /\ arg = [th \in Threads |-> NoArg]
    /\ lock = 0
    /\ snap = [th \in Threads |-> NoStats]
    /\ seen = [th \in Threads |-> {}]
    /\ now = 0
    /\ stopped = FALSE
    /\ ops = 0
    /\ verdict = NoVerdict
    /\ trail = <<>>
    /\ summary_stats = NoSummaryStats
    /\ reporter = NewReporter

\* batch_analyze constructs its Monitor without a callback (line 354)
InitBatch ==
    /\ InitCommon
    /\ results = <<>>
    /\ enable_monitoring \in BOOLEAN
    /\ monitor = NewMonitor(0)
    /\ callback = "none"
    /\ error = <<>>

Init == InitBatch /\ mode = "batch"
InitAnalyzer == InitBatch /\ mode = "single"
InitPools == InitBatch /\ mode = "first"
\* a serial batch whose artifact writes may fail
InitReport == InitBatch /\ mode = "report"

\* a Monitor constructed by a client of the class (create_monitor)
InitMonitor ==
    /\ InitCommon
    /\ results = <<>>
    /\ mode = "monitor"
    /\ enable_monitoring = TRUE
    /\ \E total \in 0..NumStocks : monitor = NewMonitor(total)
    /\ callback \in {"none", "quiet", "raising"}
    /\ error = <<>>

\* an ErrorHandler without a Monitor, given one error
InitClassifier ==
    /\ InitCommon
    /\ results = <<>>
    /\ mode = "classifier"
    /\ enable_monitoring = FALSE
    /\ monitor = NewMonitor(0)
    /\ callback = "none"
    /\ error \in Messages

(* ------------------------------------------------------ batch_analyze *)
\* lines 340-369: monitor construction, start_monitoring, task submission
Submit(cfg) ==
    /\ config' = cfg
    /\ mainpc' = "collecting"
    /\ results' = <<>>
    /\ success_count' = 0
    /\ failed_count' = 0
    /\ pc' = [t \in DOMAIN cfg.stock_codes |-> "queued"]
    /\ idx' = [t \in DOMAIN cfg.stock_codes |-> 1]
    /\ errors' = [t \in DOMAIN cfg.stock_codes |-> <<>>]
    /\ analysis_data' = [t \in DOMAIN cfg.stock_codes |-> EmptyData]
    /\ task_result' = [t \in DOMAIN cfg.stock_codes |-> NoResult]
    /\ calls' = [t \in DOMAIN cfg.stock_codes |-> <<>>]
    /\ updates' = [t \in DOMAIN cfg.stock_codes |-> <<>>]
    /\ handled' = [t \in DOMAIN cfg.stock_codes |-> <<>>]
    /\ advice' = [t \in DOMAIN cfg.stock_codes |-> <<>>]
    /\ trail' = <<>>
    /\ monitor' = IF enable_monitoring
                  THEN start_monitoring(NewMonitor(Len(cfg.stock_codes)))
                  ELSE monitor

StartBatch ==
    /\ mainpc = "idle"
    /\ \E codes \in StockLists, types \in TypeLists, workers \in WorkerCounts,
          retries \in RetryCounts :
            Submit([stock_codes |-> codes, analysis_types |-> types,
                    max_workers |-> workers, max_retry |-> retries])
    /\ UNCHANGED <<mode, enable_monitoring, memo, ref, othervars>>

(* ----------------------------------------------- analyze_single_stock *)
\* a worker thread is inside analyze_single_stock
Active(t) == pc[t] \in {"identity", "loop", "handler", "handler_complete"}

\* ThreadPoolExecutor: at most max_workers tasks run, taken in submission order
CanStart(t) ==
    /\ pc[t] = "queued"
    /\ \A u \in Tasks : u < t => pc[u] # "queued"
    /\ Cardinality({u \in Tasks : Active(u)}) < config.max_workers

\* the frame of analyze_single_stock is gone once the call has ended
ExitFrame(t) ==
    /\ idx' = [idx EXCEPT ![t] = 1]
    /\ errors' = [errors EXCEPT ![t] = <<>>]
    /\ analysis_data' = [analysis_data EXCEPT ![t] = EmptyData]

\* lines 89-96: the statements before the try block; a failure here escapes
TaskStart(t) ==
    /\ mainpc = "collecting"
    /\ CanStart(t)
    /\ \E o \in {"ok", "fault"} :
        /\ StubAllows(CodeOf(t), "entry", o)
        /\ memo' = StubRecord(CodeOf(t), "entry", o)
        /\ IF o = "fault"
           THEN /\ pc' = [pc EXCEPT ![t] = "raised"]
                /\ UNCHANGED <<monitor, updates>>
           ELSE /\ pc' = [pc EXCEPT ![t] = "identity"]
                /\ monitor' = WithMonitor(update_stock_start(monitor, CodeOf(t)))
                /\ updates' = [updates EXCEPT ![t] = Sent(t, <<"started">>)]
    /\ UNCHANGED <<mode, enable_monitoring, config, mainpc, results,
                   success_count, failed_count, idx, errors, analysis_data,
                   task_result, calls, handled, ref, advice, trail, othervars>>

\* variant: the early return of lines 105-110 is missing
AfterNoIdentityFallsThrough == "loop"

\* where a missing identity sends the task
AfterNoIdentity == "returned"

\* variant: no outer try/except around the body
OuterExceptMissing == "raised"

\* where an exception in the try body sends the task
OuterExcept == "handler"

\* lines 98-121: get_stock_identity
ResolveIdentity(t) ==
    /\ pc[t] = "identity"
    /\ \E o \in {"ok", "none", "raise"} :
        /\ StubAllows(CodeOf(t), "identity", o)
        /\ memo' = StubRecord(CodeOf(t), "identity", o)
        /\ calls' = [calls EXCEPT ![t] = Called(t, 0, "identity", o)]
        /\ CASE o = "none" ->
                  /\ monitor' = WithMonitor(update_stock_complete(
                                    monitor, CodeOf(t), FALSE, <<"no_identity">>))
                  /\ updates' = [updates EXCEPT ![t] = Sent(t, <<"failed">>)]
                  /\ task_result' = [task_result EXCEPT ![t] =
                        StockAnalysisResult(CodeOf(t), "failed",
                                            <<"no_identity">>, EmptyData)]
                  /\ pc' = [pc EXCEPT ![t] = AfterNoIdentity]
             [] o = "raise" ->
                  /\ pc' = [pc EXCEPT ![t] = OuterExcept]
                  /\ UNCHANGED <<monitor, updates, task_result>>
             [] o = "ok" ->
                  /\ monitor' = WithMonitor(update_stock_start(monitor, CodeOf(t)))
                  /\ updates' = [updates EXCEPT ![t] = Sent(t, <<"started">>)]
                  /\ pc' = [pc EXCEPT ![t] = "loop"]
                  /\ UNCHANGED task_result
    /\ UNCHANGED <<mode, enable_monitoring, config, mainpc, results,
                   success_count, failed_count, idx, errors, analysis_data,
                   handled, ref, advice, trail, othervars>>

\* variant: one try around the whole loop, a raise ends the loop
AfterTypeErrorAborts(i) == Len(config.analysis_types) + 1

\* variant: the type that raised is tried again
AfterTypeErrorRetries(i) == i

\* the loop index after an iteration whose collaborator raised
AfterTypeError(i) == i + 1

\* variant: a tag that matches no branch is recorded as an error
UnknownTypeRecorded(errs, tag) == Append(errs, tag)

\* lines 129-214: the if/elif chain has no else; an unmatched tag adds nothing
UnknownTypeErrors(errs, tag) == errs

\* lines 123-214: one iteration of `for i, analysis_type in enumerate(...)`
AnalyzeType(t) ==
    /\ pc[t] = "loop"
    /\ idx[t] <= Len(config.analysis_types)
    /\ LET tag == config.analysis_types[idx[t]] IN
       IF tag \in KnownTypes
       THEN \E o \in CollaboratorOutcomes :
              /\ StubAllows(CodeOf(t), tag, o)
              /\ memo' = StubRecord(CodeOf(t), tag, o)
              /\ calls' = [calls EXCEPT ![t] = Called(t, idx[t], tag, o)]
              /\ IF o = "raise"
                 THEN /\ errors' = [errors EXCEPT ![t] = Append(@, tag)]
                      /\ monitor' = WithMonitor(handle_error(monitor, CodeOf(t)))
                      /\ handled' = [handled EXCEPT ![t] = Handled(t, ContextOf(tag))]
                      /\ updates' = [updates EXCEPT ![t] =
                                        Sent(t, <<"progress", "failed">>)]
                      /\ \E msg \in RaisedMessages :
                            advice' = [advice EXCEPT ![t] =
                                Advised(t, handle_error_result(msg).should_retry)]
                      /\ idx' = [idx EXCEPT ![t] = AfterTypeError(@)]
                      /\ UNCHANGED analysis_data
                 ELSE /\ analysis_data' = [analysis_data EXCEPT ![t][DataKey(tag)] = o]
                      /\ updates' = [updates EXCEPT ![t] = Sent(t, <<"progress">>)]
                      /\ idx' = [idx EXCEPT ![t] = @ + 1]
                      /\ UNCHANGED <<errors, monitor, handled, advice>>
       ELSE /\ updates' = [updates EXCEPT ![t] = Sent(t, <<"progress">>)]
            /\ errors' = [errors EXCEPT ![t] = UnknownTypeErrors(@, tag)]
            /\ idx' = [idx EXCEPT ![t] = @ + 1]
            /\ UNCHANGED <<memo, calls, monitor, handled, analysis_data, advice>>
    /\ UNCHANGED <<mode, enable_monitoring, config, mainpc, results,
                   success_count, failed_count, pc, task_result, ref, trail,
                   othervars>>

\* variant: `<=` for `<`, a symbol whose every type raised is partial
ComputeStatusLenient(errs, types) ==
    IF Len(errs) = 0 THEN "success"
    ELSE IF Len(errs) <= Len(types) THEN "partial"
    ELSE "failed"

\* variant: success is read off the shared monitor, not the task's own errors
ComputeStatusShared(errs, types) ==
    IF Len(errs) = 0 /\ monitor.failed_stocks = 0 THEN "success"
    ELSE IF Len(errs) < Len(types) THEN "partial"
    ELSE "failed"

\* lines 219-225
ComputeStatus(errs, types) ==
    IF Len(errs) = 0 THEN "success"
    ELSE IF Len(errs) < Len(types) THEN "partial"
    ELSE "failed"

\* variant: only a symbol without errors is reported as a success
MonitorSuccessFlagStrict(status) == status = "success"

\* line 242: success=(status != "failed")
MonitorSuccessFlag(status) == status # "failed"

\* variant: the result never carries the messages
JoinedErrorsDropped(errs) == <<>>

\* line 233: `"; ".join(errors) if errors else None`
JoinedErrors(errs) == errs

\* _generate_stock_summary reads only the payloads that are present
SummaryMayRaise(data) == \E k \in DataKeys : data[k] # "absent"

\* lines 216-246: summary, status, result, completion notice
Summarize(t) ==
    /\ pc[t] = "loop"
    /\ idx[t] > Len(config.analysis_types)
    /\ \E o \in {"ok", "raise"} :
        /\ o = "raise" => SummaryMayRaise(analysis_data[t])
        /\ StubAllows(CodeOf(t), "summary", o)
        /\ memo' = StubRecord(CodeOf(t), "summary", o)
        /\ calls' = [calls EXCEPT ![t] =
                        Called(t, Len(config.analysis_types) + 1, "summary", o)]
        /\ IF o = "raise"
           THEN /\ pc' = [pc EXCEPT ![t] = OuterExcept]
                /\ UNCHANGED <<monitor, updates, task_result, idx, errors,
                               analysis_data>>
           ELSE LET status == ComputeStatus(errors[t], config.analysis_types)
                    ok == MonitorSuccessFlag(status)
                IN /\ task_result' = [task_result EXCEPT ![t] =
                          StockAnalysisResult(CodeOf(t), status,
                                              JoinedErrors(errors[t]),
                                              analysis_data[t])]
                   /\ monitor' = WithMonitor(update_stock_complete(
                                     monitor, CodeOf(t), ok, errors[t]))
                   /\ updates' = [updates EXCEPT ![t] = Sent(t, <<CompleteLabel(ok)>>)]
                   /\ pc' = [pc EXCEPT ![t] = "returned"]
                   /\ ExitFrame(t)
    /\ UNCHANGED <<mode, enable_monitoring, config, mainpc, results,
                   success_count, failed_count, handled, ref,
                   advice, trail, othervars>>

\* lines 248-255: outer except, handle_error(stock_code, e, ...)
OuterHandler(t) ==
    /\ pc[t] = "handler"
    /\ monitor' = WithMonitor(handle_error(monitor, CodeOf(t)))
    /\ handled' = [handled EXCEPT ![t] = Handled(t, "ctx_unknown")]
    /\ updates' = [updates EXCEPT ![t] = Sent(t, <<"failed">>)]
    /\ pc' = [pc EXCEPT ![t] = "handler_complete"]
    /\ UNCHANGED <<mode, enable_monitoring, config, mainpc, results,
                   success_count, failed_count, idx, errors, analysis_data,
                   task_result, calls, memo, ref, advice, trail, othervars>>

\* lines 257-267: outer except, completion notice and failed result
OuterHandlerReturn(t) ==
    /\ pc[t] = "handler_complete"
    /\ monitor' = WithMonitor(update_stock_complete(monitor, CodeOf(t), FALSE,
                                                    <<"unknown_error">>))
    /\ updates' = [updates EXCEPT ![t] = Sent(t, <<"failed">>)]
    /\ task_result' = [task_result EXCEPT ![t] =
            StockAnalysisResult(CodeOf(t), "failed", <<"unknown_error">>,
                                EmptyData)]
    /\ pc' = [pc EXCEPT ![t] = "returned"]
    /\ ExitFrame(t)
    /\ UNCHANGED <<mode, enable_monitoring, config, mainpc, results,
                   success_count, failed_count, calls, handled, memo, ref,
                   advice, trail, othervars>>

(* ------------------------------------------- batch_analyze: collection *)
\* variant: a partial result is tallied as a success
TallySuccessCountsPartial(result, n) ==
    IF result.status # "failed" THEN n + 1 ELSE n

\* line 378-379
TallySuccess(result, n) == IF result.status = "success" THEN n + 1 ELSE n

\* variant: only status 'failed' is tallied as a failure
TallyFailedSkipsPartial(result, n) ==
    IF result.status = "failed" THEN n + 1 ELSE n

\* lines 380-381
TallyFailed(result, n) == IF result.status = "success" THEN n ELSE n + 1

\* lines 372-385: a future that returned
CollectResult(t) ==
    /\ mainpc = "collecting"
    /\ pc[t] = "returned"
    /\ results' = Append(results, task_result[t])
    /\ success_count' = TallySuccess(task_result[t], success_count)
    /\ failed_count' = TallyFailed(task_result[t], failed_count)
    /\ pc' = [pc EXCEPT ![t] = "collected"]
    /\ task_result' = [task_result EXCEPT ![t] = NoResult]
    /\ UNCHANGED <<mode, enable_monitoring, config, mainpc, idx, errors,
                   analysis_data, calls, updates, handled, monitor, memo, ref,
                   advice, trail, othervars>>

\* variant: the synthetic result loses the symbol code
SyntheticResultNoCode(code) ==
    StockAnalysisResult("unknown", "failed", <<"task_exception">>, EmptyData)

\* lines 395-400: the synthetic result of a task that raised
SyntheticResult(code) ==
    StockAnalysisResult(code, "failed", <<"task_exception">>, EmptyData)

\* variant: the except branch forgets failed_count += 1
TallyExceptionForgotten(n) == n

\* line 389
TallyException(n) == n + 1

\* lines 387-400: a future whose task raised
CollectException(t) ==
    /\ mainpc = "collecting"
    /\ pc[t] = "raised"
    /\ failed_count' = TallyException(failed_count)
    /\ monitor' = WithMonitor(handle_error(monitor, CodeOf(t)))
    /\ handled' = [handled EXCEPT ![t] = Handled(t, "ctx_task")]
    /\ updates' = [updates EXCEPT ![t] = Sent(t, <<"failed">>)]
    /\ results' = Append(results, SyntheticResult(CodeOf(t)))
    /\ pc' = [pc EXCEPT ![t] = "collected"]
    /\ UNCHANGED <<mode, enable_monitoring, config, mainpc, success_count,
                   idx, errors, analysis_data, task_result, calls, memo, ref,
                   advice, trail, othervars>>

\* outcomes of writing an artifact to the output directory; the flags
\* save_individual_reports and save_summary_report keep their defaults
\* (lines 41-42)
WriteOutcomes == IF mode = "report" THEN {"ok", "fail"} ELSE {"ok"}

\* one thing batch_analyze did after the pool had drained
Step(name, target, outcome) ==
    [step |-> name, target |-> target, outcome |-> outcome]

\* line 524: `if result.analysis_data:`
HasData(result) == \E k \in DataKeys : result.analysis_data[k] # "absent"

\* lines 523-545: one JSON per result that has payloads, each in its own try
RECURSIVE IndividualReports(_, _)
IndividualReports(rs, outcomes) ==
    IF rs = <<>> THEN <<>>
    ELSE (IF HasData(Head(rs))
          THEN <<Step("individual_json", Head(rs).stock_code, Head(outcomes))>>
          ELSE <<>>)
         \o IndividualReports(Tail(rs), Tail(outcomes))

\* variant: the statistics are computed before the Monitor is stopped
TailStatsFirst(rs, log, individual, csv, json) ==
    <<Step("summary_stats", "", "ok")>>
    \o (IF enable_monitoring
        THEN <<Step("stop_monitoring", "", "ok"),
               Step("save_monitor_log", "", log)>>
        ELSE <<>>)
    \o <<Step("assemble", "", "ok")>>
    \o IndividualReports(rs, individual)
    \o <<Step("summary_csv", "", csv), Step("detailed_json", "", json)>>

\* lines 405-432: stop_monitoring, save_monitor_log, _generate_summary_stats,
\* BatchAnalysisResult, _save_individual_reports, _save_summary_report
TailSteps(rs, log, individual, csv, json) ==
    (IF enable_monitoring
     THEN <<Step("stop_monitoring", "", "ok"),
            Step("save_monitor_log", "", log)>>
     ELSE <<>>)
    \o <<Step("summary_stats", "", "ok"), Step("assemble", "", "ok")>>
    \o IndividualReports(rs, individual)
    \o <<Step("summary_csv", "", csv), Step("detailed_json", "", json)>>

\* variant: a failed write ends the tail, nothing after it is attempted
WriteFailureAborts(steps) ==
    LET fails == {i \in DOMAIN steps : steps[i].outcome = "fail"} IN
    IF fails = {} THEN steps
    ELSE SubSeq(steps, 1, CHOOSE i \in fails : \A j \in fails : i <= j)

\* each write sits in its own try/except that prints and goes on
\* (monitor lines 226-231, analyzer lines 538-545, 575-580, 599-606)
WriteFailureCaught(steps) == steps

\* lines 401-450: the pool has drained; the Monitor is stopped, the
\* statistics computed, the artifacts written, the BatchAnalysisResult returned
Finish ==
    /\ mainpc = "collecting"
    /\ \A t \in Tasks : pc[t] = "collected"
    /\ monitor' = WithMonitor(stop_monitoring(monitor))
    /\ \E log \in WriteOutcomes, csv \in WriteOutcomes, json \in WriteOutcomes,
          individual \in [DOMAIN results -> WriteOutcomes] :
            trail' = WriteFailureCaught(
                        TailSteps(results, log, individual, csv, json))
    /\ mainpc' = "done"
    /\ UNCHANGED <<mode, enable_monitoring, config, results, success_count,
                   failed_count, pc, idx, errors, analysis_data, task_result,
                   calls, updates, handled, memo, ref, advice, othervars>>

\* a second batch_analyze of the same symbols and types, on any pool size
Rerun ==
    /\ mode = "first"
    /\ mainpc = "done"
    /\ mode' = "second"
    /\ ref' = [success_count |-> success_count, failed_count |-> failed_count,
               tally |-> [c \in Codes |->
                            [st \in {"success", "partial", "failed"} |->
                                Cardinality({i \in DOMAIN results :
                                    /\ results[i].stock_code = c
                                    /\ results[i].status = st})]]]
    /\ \E workers \in PoolSizes :
          Submit([config EXCEPT !.max_workers = workers])
    /\ UNCHANGED <<enable_monitoring, memo, othervars>>

Next ==
    \/ StartBatch
    \/ \E t \in Tasks : TaskStart(t)
    \/ \E t \in Tasks : ResolveIdentity(t)
    \/ \E t \in Tasks : AnalyzeType(t)
    \/ \E t \in Tasks : Summarize(t)
    \/ \E t \in Tasks : OuterHandler(t)
    \/ \E t \in Tasks : OuterHandlerReturn(t)
    \/ \E t \in Tasks : CollectResult(t)
    \/ \E t \in Tasks : CollectException(t)
    \/ Finish

NextPools == Next \/ Rerun

Spec == Init /\ [][Next]_vars
SpecAnalyzer == InitAnalyzer /\ [][Next]_vars
SpecPools == InitPools /\ [][NextPools]_vars
SpecReport == InitReport /\ [][Next]_vars

(* ------------------------------- a Monitor driven by concurrent clients *)
batchvars == <<mode, enable_monitoring, config, mainpc, results, success_count,
               failed_count, pc, idx, errors, analysis_data, task_result,
               calls, updates, handled, memo, ref, advice, trail,
               summary_stats, reporter>>

\* the history of what a thread inside get_current_stats could have read
SeenNext ==
    [r \in Threads |->
        IF tpc'[r] \in StatsPositions
        THEN seen[r] \cup {FieldsOf(monitor')}
        ELSE {}]

\* a client thread enters a method of the Monitor
Enter(th) ==
    /\ tpc[th] = "idle"
    /\ ops < MaxOps
    /\ ops' = ops + 1

\* lines 73-76: start_monitoring up to its _send_update
CallStartMonitoring(th) ==
    /\ Enter(th)
    /\ monitor' = start_monitoring(monitor)
    /\ tpc' = [tpc EXCEPT ![th] = "send"]
    /\ UNCHANGED <<batchvars, arg, lock, snap, now, callback, stopped, error, verdict>>
    /\ seen' = SeenNext

\* lines 79-81: stop_monitoring up to its _send_update
CallStopMonitoring(th) ==
    /\ Enter(th)
    /\ monitor' = stop_monitoring(monitor)
    /\ stopped' = TRUE
    /\ tpc' = [tpc EXCEPT ![th] = "send"]
    /\ UNCHANGED <<batchvars, arg, lock, snap, now, callback, error, verdict>>
    /\ seen' = SeenNext

\* line 86: update_stock_start takes stats_lock
CallStockStart(th) ==
    /\ lock = 0
    /\ Enter(th)
    /\ \E code \in Codes :
          arg' = [arg EXCEPT ![th] = [code |-> code, success |-> TRUE]]
    /\ lock' = th
    /\ tpc' = [tpc EXCEPT ![th] = "start_body"]
    /\ UNCHANGED <<batchvars, monitor, snap, now, callback, stopped, error,
                   verdict>>
    /\ seen' = SeenNext

\* lines 87-91: the body of update_stock_start and the release of the lock
StockStartBody(th) ==
    /\ tpc[th] = "start_body"
    /\ monitor' = update_stock_start(monitor, arg[th].code)
    /\ arg' = [arg EXCEPT ![th] = NoArg]
    /\ lock' = 0
    /\ tpc' = [tpc EXCEPT ![th] = "send"]
    /\ UNCHANGED <<batchvars, snap, now, callback, stopped, ops, error,
                   verdict>>
    /\ seen' = SeenNext

\* lines 95-97: update_stock_progress is its _send_update
CallStockProgress(th) ==
    /\ Enter(th)
    /\ tpc' = [tpc EXCEPT ![th] = "send"]
    /\ UNCHANGED <<batchvars, arg, monitor, lock, snap, now, callback, stopped,
                   error, verdict>>
    /\ seen' = SeenNext

\* line 101: update_stock_complete takes stats_lock
CallStockComplete(th) ==
    /\ lock = 0
    /\ Enter(th)
    /\ \E code \in Codes, success \in BOOLEAN :
          arg' = [arg EXCEPT ![th] = [code |-> code, success |-> success]]
    /\ lock' = th
    /\ tpc' = [tpc EXCEPT ![th] = "complete_body"]
    /\ UNCHANGED <<batchvars, monitor, snap, now, callback, stopped, error,
                   verdict>>
    /\ seen' = SeenNext

\* lines 102-121: the body of update_stock_complete and the release of the lock
StockCompleteBody(th) ==
    /\ tpc[th] = "complete_body"
    /\ monitor' = update_stock_complete(monitor, arg[th].code, arg[th].success,
                                        <<"raw">>)
    /\ arg' = [arg EXCEPT ![th] = NoArg]
    /\ lock' = 0
    /\ tpc' = [tpc EXCEPT ![th] = "send"]
    /\ UNCHANGED <<batchvars, snap, now, callback, stopped, ops, error,
                   verdict>>
    /\ seen' = SeenNext

\* lines 125-138: _send_update builds the ProgressUpdate, reading stock_times
SendUpdate(th) ==
    /\ tpc[th] = "send"
    /\ tpc' = [tpc EXCEPT ![th] = IF callback = "none" THEN "idle" ELSE "callback"]
    /\ UNCHANGED <<batchvars, arg, monitor, lock, snap, now, callback, stopped, ops,
                   error, verdict>>
    /\ seen' = SeenNext

\* variant: no try/except around the callback
CallbackExceptMissing(kind) == IF kind = "raising" THEN "crashed" ELSE "idle"

\* where the callback leaves the thread: `except Exception` swallows a raise
CallbackExcept(kind) == "idle"

\* lines 138-142: the callback is run, its exception is printed
RunCallback(th) ==
    /\ tpc[th] = "callback"
    /\ tpc' = [tpc EXCEPT ![th] = CallbackExcept(callback)]
    /\ UNCHANGED <<batchvars, arg, monitor, lock, snap, now, callback, stopped, ops,
                   error, verdict>>
    /\ seen' = SeenNext

\* variant: get_current_stats reads without taking stats_lock
StatsHolderNone(th) == 0

\* `with self.stats_lock:` of get_current_stats
StatsHolder(th) == th

\* lines 146-147: get_current_stats takes the lock and reads the clock
CallGetStats(th) ==
    /\ lock = 0
    /\ Enter(th)
    /\ lock' = StatsHolder(th)
    /\ snap' = [snap EXCEPT ![th].elapsed_time = now - monitor.start_time]
    /\ tpc' = [tpc EXCEPT ![th] = "stats_estimate"]
    /\ UNCHANGED <<batchvars, arg, monitor, now, callback, stopped, error, verdict>>
    /\ seen' = SeenNext

\* lines 150-155: elapsed_time / completed_stocks * remaining_stocks
EstimatedRemaining(m, elapsed_time) ==
    IF m.completed_stocks > 0
    THEN [num |-> elapsed_time
                    * (m.total_stocks - m.completed_stocks - m.failed_stocks),
          den |-> m.completed_stocks]
    ELSE [num |-> 0, den |-> 1]

\* lines 150-157
StatsEstimate(th) ==
    /\ tpc[th] = "stats_estimate"
    /\ snap' = [snap EXCEPT ![th].estimated_remaining =
                    EstimatedRemaining(monitor, snap[th].elapsed_time)]
    /\ tpc' = [tpc EXCEPT ![th] = "stats_counts"]
    /\ UNCHANGED <<batchvars, monitor, arg, lock, now, callback, stopped, ops,
                   error, verdict>>
    /\ seen' = SeenNext

\* lines 160-161
StatsCounts(th) ==
    /\ tpc[th] = "stats_counts"
    /\ snap' = [snap EXCEPT ![th].total_stocks = monitor.total_stocks,
                            ![th].completed_stocks = monitor.completed_stocks]
    /\ tpc' = [tpc EXCEPT ![th] = "stats_rest"]
    /\ UNCHANGED <<batchvars, monitor, arg, lock, now, callback, stopped, ops,
                   error, verdict>>
    /\ seen' = SeenNext

\* lines 162-163
StatsRest(th) ==
    /\ tpc[th] = "stats_rest"
    /\ snap' = [snap EXCEPT ![th].failed_stocks = monitor.failed_stocks,
                            ![th].current_stock = monitor.current_stock]
    /\ tpc' = [tpc EXCEPT ![th] = "stats_return"]
    /\ UNCHANGED <<batchvars, monitor, arg, lock, now, callback, stopped, ops,
                   error, verdict>>
    /\ seen' = SeenNext

\* line 168: the snapshot is returned and the lock released
StatsReturn(th) ==
    /\ tpc[th] = "stats_return"
    /\ lock' = 0
    /\ snap' = [snap EXCEPT ![th] = NoStats]
    /\ tpc' = [tpc EXCEPT ![th] = "idle"]
    /\ UNCHANGED <<batchvars, arg, monitor, now, callback, stopped, ops, error,
                   verdict>>
    /\ seen' = SeenNext

\* the clock advances
Tick ==
    /\ now < MaxTime
    /\ now' = now + 1
    /\ UNCHANGED <<batchvars, monitor, tpc, arg, lock, snap, seen, callback,
                   stopped, ops, error, verdict>>

NextMonitor ==
    \/ \E th \in Threads : CallStartMonitoring(th)
    \/ \E th \in Threads : CallStopMonitoring(th)
    \/ \E th \in Threads : CallStockStart(th)
    \/ \E th \in Threads : StockStartBody(th)
    \/ \E th \in Threads : CallStockProgress(th)
    \/ \E th \in Threads : CallStockComplete(th)
    \/ \E th \in Threads : StockCompleteBody(th)
    \/ \E th \in Threads : SendUpdate(th)
    \/ \E th \in Threads : RunCallback(th)
    \/ \E th \in Threads : CallGetStats(th)
    \/ \E th \in Threads : StatsEstimate(th)
    \/ \E th \in Threads : StatsCounts(th)
    \/ \E th \in Threads : StatsRest(th)
    \/ \E th \in Threads : StatsReturn(th)
    \/ Tick

SpecMonitor == InitMonitor /\ [][NextMonitor]_vars

(* ------------------------------------------- an ErrorHandler on its own *)
\* _classify_error(error)
Classify ==
    /\ verdict.call # "classify"
    /\ verdict' = [call |-> "classify", error_type |-> classify_error(error)]
    /\ UNCHANGED <<batchvars, monitor, tpc, arg, lock, snap, seen, now,
                   callback, stopped, ops, error>>

\* handle_error(stock_code, error) of a handler constructed without a Monitor
HandleError ==
    /\ verdict.call # "handle"
    /\ verdict' = [call |-> "handle", policy |-> handle_error_result(error)]
    /\ UNCHANGED <<batchvars, monitor, tpc, arg, lock, snap, seen, now,
                   callback, stopped, ops, error>>

NextClassifier == Classify \/ HandleError

SpecClassifier == InitClassifier /\ [][NextClassifier]_vars

(* ---------------------------------------------- _generate_summary_stats *)
\* StockAnalysisResult.summary: None, or the mapping of
\* _generate_stock_summary with its current_price and has_ai_analysis
NoSummary == [present |-> FALSE, current_price |-> 0, has_ai_analysis |-> FALSE]
Prices == {-1, 0, 1, 19, 20, 99, 100, 150}
Summaries ==
    {NoSummary} \cup [present : {TRUE}, current_price : Prices,
                       has_ai_analysis : BOOLEAN]
StatResults == [status : {"success", "partial", "failed"}, summary : Summaries]

\* a / b as Python computes it: the fraction, a zero denominator standing
\* for ZeroDivisionError
Ratio(a, b) == [num |-> a, den |-> b]

\* variant: 20 and 100 belong to the bucket below
PriceBucketInclusive(price) ==
    IF price <= 20 THEN "low" ELSE IF price <= 100 THEN "medium" ELSE "high"

\* lines 479-484: the if / elif / else over the price
PriceBucket(price) ==
    IF price < 20 THEN "low" ELSE IF price < 100 THEN "medium" ELSE "high"

\* line 477: `result.summary and result.summary.get('current_price', 0) > 0`
HasPrice(r) == r.summary.present /\ r.summary.current_price > 0

\* lines 476-485
price_ranges(rs) ==
    [b \in {"low", "medium", "high"} |->
        Cardinality({i \in DOMAIN rs :
            HasPrice(rs[i]) /\ PriceBucket(rs[i].summary.current_price) = b})]

\* line 488
ai_count(rs) ==
    Cardinality({i \in DOMAIN rs :
        rs[i].summary.present /\ rs[i].summary.has_ai_analysis})

\* variant: the empty list is not returned early
EmptyStatsDivides(rs) ==
    [computed |-> TRUE, total_stocks |-> 0, success_rate |-> Ratio(0, Len(rs)),
     price_ranges |-> price_ranges(rs),
     ai_analysis_coverage |-> Ratio(ai_count(rs) * 100, Len(rs))]

\* lines 454-465: the initial mapping, returned as it is for no results
EmptyStats(rs) ==
    [computed |-> TRUE, total_stocks |-> 0, success_rate |-> Ratio(0, 1),
     price_ranges |-> [b \in {"low", "medium", "high"} |-> 0],
     ai_analysis_coverage |-> Ratio(0, 1)]

\* lines 452-491
generate_summary_stats(rs) ==
    IF rs = <<>> THEN EmptyStats(rs)
    ELSE [computed |-> TRUE,
          total_stocks |-> Len(rs),
          success_rate |->
              Ratio(Cardinality({i \in DOMAIN rs : rs[i].status = "success"})
                        * 100, Len(rs)),
          price_ranges |-> price_ranges(rs),
          ai_analysis_coverage |-> Ratio(ai_count(rs) * 100, Len(rs))]

\* any list of results given to _generate_summary_stats
InitStats ==
    /\ InitCommon
    /\ mode = "stats"
    /\ results \in SeqsUpTo(StatResults, MaxResults)
    /\ enable_monitoring = FALSE
    /\ monitor = NewMonitor(0)
    /\ callback = "none"
    /\ error = <<>>

GenerateSummaryStats ==
    /\ mode = "stats"
    /\ mainpc = "idle"
    /\ summary_stats' = generate_summary_stats(results)
    /\ mainpc' = "done"
    /\ UNCHANGED <<mode, enable_monitoring, config, results, success_count,
                   failed_count, pc, idx, errors, analysis_data, task_result,
                   monitor, calls, updates, handled, memo, ref, advice, tpc,
                   arg, lock, snap, seen, now, callback, stopped, ops, error,
                   verdict, trail, reporter>>

NextStats == GenerateSummaryStats

SpecStats == InitStats /\ [][NextStats]_vars

(* ------------------------------------------------------ ProgressReporter *)
\* line 354
report_interval == 30

\* seconds that pass between two steps of the caller
ClockSteps == {1, 29, 30}

\* lines 356-359, with the clock read as t
should_report(r, t) == t - r.last_report_time >= report_interval

\* variant: the timestamp of the last report is left as it was
last_report_time_kept(r, t) == r

\* line 385
reset_last_report_time(r, t) == [r EXCEPT !.last_report_time = t]

\* everything but the clock and the reporter
reportervars == <<mode, enable_monitoring, config, mainpc, results,
                  success_count, failed_count, pc, idx, errors, analysis_data,
                  task_result, monitor, calls, updates, handled, memo, ref,
                  advice, tpc, arg, lock, snap, seen, callback, stopped, ops,
                  error, verdict, trail, summary_stats>>

\* a ProgressReporter over a Monitor, called from one thread
\* (batch_analysis.py lines 384-385)
InitReporter ==
    /\ InitCommon
    /\ mode = "reporter"
    /\ results = <<>>
    /\ enable_monitoring = TRUE
    /\ monitor = NewMonitor(0)
    /\ callback = "none"
    /\ error = <<>>

\* lines 361-364: report_progress is entered and asks should_report
ReportProgress ==
    /\ mode = "reporter"
    /\ reporter.pos = "idle"
    /\ reporter' =
          IF should_report(reporter, now)
          THEN [reporter EXCEPT !.pos = "snapshot", !.checked_at = now,
                                !.last_call = "reported"]
          ELSE [reporter EXCEPT !.checked_at = now, !.last_call = "skipped"]
    /\ UNCHANGED <<now, reportervars>>

\* lines 366-383: get_current_stats, get_error_summary and the prints
ReportSnapshot ==
    /\ mode = "reporter"
    /\ reporter.pos = "snapshot"
    /\ reporter' = [reporter EXCEPT !.pos = "reset", !.reads = @ + 1]
    /\ UNCHANGED <<now, reportervars>>

\* line 385: the timestamp of the last report becomes the clock's reading
ReportReset ==
    /\ mode = "reporter"
    /\ reporter.pos = "reset"
    /\ reporter' = [reset_last_report_time(reporter, now)
                      EXCEPT !.pos = "idle", !.reports = Append(@, now)]
    /\ UNCHANGED <<now, reportervars>>

\* time passes, between calls or inside one
ReporterTick ==
    /\ mode = "reporter"
    /\ \E d \in ClockSteps :
          /\ now + d <= MaxClock
          /\ now' = now + d
    /\ UNCHANGED <<reporter, reportervars>>

NextReporter ==
    \/ ReportProgress
    \/ ReportSnapshot
    \/ ReportReset
    \/ ReporterTick

SpecReporter == InitReporter /\ [][NextReporter]_vars

TypeOK ==
    /\ mainpc \in {"idle", "collecting", "done"}
    /\ success_count \in Nat
    /\ failed_count \in Nat
    /\ \A t \in Tasks : pc[t] \in {"queued", "identity", "loop", "handler",
                                   "handler_complete", "returned", "raised",
                                   "collected"}

(* ============================================================ claims *)
Statuses == {"success", "partial", "failed"}
NumTypes == Len(config.analysis_types)

CountStatus(rs, st) == Cardinality({i \in DOMAIN rs : rs[i].status = st})
CountCode(rs, c) == Cardinality({i \in DOMAIN rs : rs[i].stock_code = c})
CountCodeStatus(rs, c, st) ==
    Cardinality({i \in DOMAIN rs : rs[i].stock_code = c /\ rs[i].status = st})

\* history of a task (recorded under SpecAnalyzer)
HasCall(t, tag, outcome) ==
    \E k \in DOMAIN calls[t] : calls[t][k].tag = tag /\ calls[t][k].outcome = outcome
IsTypeCall(c) == c.pos >= 1 /\ c.tag \in KnownTypes
IsTypeError(c) == IsTypeCall(c) /\ c.outcome = "raise"
NumRaised(t) == Len(SelectSeq(calls[t], IsTypeError))
CallsAt(t, j) == {k \in DOMAIN calls[t] : calls[t][k].pos = j}
TagsOf(cs) == [k \in 1..Len(cs) |-> cs[k].tag]

\* the status rule of the specification, over the number k of errored types
StatusRule(k, n) ==
    IF k = 0 THEN "success" ELSE IF k = n THEN "failed" ELSE "partial"

(* ---- C1 ----------------------------------------------------------- *)
\* C1: with monitoring enabled, the Monitor's completed_stocks +
\* failed_stocks never exceeds total_stocks, whatever fails.
C1_MonitorCountBounded ==
    enable_monitoring =>
        monitor.completed_stocks + monitor.failed_stocks <= monitor.total_stocks

(* ---- C2 ----------------------------------------------------------- *)
\* C2: at the end of every batch run success_count + failed_count equals
\* the number of entries of results, and neither count is negative.
C2_TallyMatchesResults ==
    mainpc = "done" =>
        /\ success_count + failed_count = Len(results)
        /\ success_count >= 0
        /\ failed_count >= 0

C2_Witness ==
    /\ mainpc = "done"
    /\ success_count >= 1
    /\ failed_count >= 1
    /\ \E i \in DOMAIN results : results[i].error_message = <<"task_exception">>

(* ---- C3 ----------------------------------------------------------- *)
\* C3 as claimed: every result returned after identity resolution succeeded
\* has status success / failed / partial by the number of types that errored.
C3_StatusRuleEveryReturn ==
    \A t \in Tasks :
        (pc[t] = "returned" /\ HasCall(t, "identity", "ok")) =>
            task_result[t].status = StatusRule(NumRaised(t), NumTypes)

\* C3 as amended: the status rule holds for every result returned on the
\* normal path; a result returned by the outer exception handler (the
\* summary derivation raised) is failed whatever the number of errored types.
C3_StatusRuleNormalReturn ==
    \A t \in Tasks :
        (pc[t] = "returned" /\ HasCall(t, "identity", "ok")) =>
            IF HasCall(t, "summary", "raise")
            THEN task_result[t].status = "failed"
            ELSE task_result[t].status = StatusRule(NumRaised(t), NumTypes)

C3_Witness ==
    \E t \in Tasks :
        /\ pc[t] = "returned"
        /\ HasCall(t, "identity", "ok")
        /\ HasCall(t, "summary", "ok")
        /\ NumTypes = 2
        /\ NumRaised(t) = 2
        /\ task_result[t].status = "failed"

(* ---- C4 ----------------------------------------------------------- *)
\* C4: after batch_analyze, results has one entry per submitted symbol:
\* the same length as stock_codes, and every code as often as submitted,
\* whether its task returned or raised.
C4_OneResultPerSymbol ==
    mainpc = "done" =>
        /\ Len(results) = Len(config.stock_codes)
        /\ \A c \in Codes \cup {"unknown", ""} :
              CountCode(results, c) = Cardinality({t \in Tasks : CodeOf(t) = c})

C4_Witness ==
    /\ mainpc = "done"
    /\ Len(config.stock_codes) >= 2
    /\ \E i \in DOMAIN results : results[i].error_message = <<"task_exception">>
    /\ \E i \in DOMAIN results : results[i].error_message # <<"task_exception">>

(* ---- C5 ----------------------------------------------------------- *)
\* C5: analyze_single_stock never raises once it is inside its try block:
\* a failure of identity resolution, of a collaborator or of the summary
\* derivation ends in a returned result, failed for an uncaught failure.
C5_NeverPropagates ==
    \A t \in Tasks :
        /\ calls[t] # <<>> => pc[t] # "raised"
        /\ pc[t] = "returned" => task_result[t].status \in Statuses
        /\ (pc[t] = "returned" /\ (HasCall(t, "identity", "raise")
                                    \/ HasCall(t, "summary", "raise")))
              => task_result[t].status = "failed"

C5_Witness ==
    \E t \in Tasks :
        /\ pc[t] = "returned"
        /\ HasCall(t, "summary", "raise")
        /\ NumRaised(t) >= 1
        /\ task_result[t].status = "failed"

(* ---- C6 ----------------------------------------------------------- *)
\* C6: when identity resolution returns nothing the call has returned a
\* failed result at once and no analysis-type collaborator is invoked.
C6_NoIdentityShortCircuit ==
    \A t \in Tasks :
        HasCall(t, "identity", "none") =>
            /\ pc[t] \in {"returned", "collected"}
            /\ Len(calls[t]) = 1
            /\ pc[t] = "returned" => task_result[t].status = "failed"
            /\ pc[t] = "collected" =>
                  \E i \in DOMAIN results :
                      /\ results[i].stock_code = CodeOf(t)
                      /\ results[i].status = "failed"

C6_Witness ==
    \E t \in Tasks :
        /\ HasCall(t, "identity", "none")
        /\ pc[t] = "returned"
        /\ task_result[t].status = "failed"
        /\ NumTypes >= 1
        /\ config.analysis_types[1] \in KnownTypes

(* ---- C7 ----------------------------------------------------------- *)
\* C7: a collaborator that raises does not end the loop: every requested
\* known type before the loop index has been attempted exactly once, and
\* errors holds exactly one message per type that raised, in order.
C7_FaultIsolation ==
    \A t \in Tasks :
        pc[t] = "loop" =>
            /\ \A j \in 1..NumTypes :
                  (j < idx[t] /\ config.analysis_types[j] \in KnownTypes)
                      => Cardinality(CallsAt(t, j)) = 1
            /\ idx[t] <= NumTypes + 1
            /\ errors[t] = TagsOf(SelectSeq(calls[t], IsTypeError))

C7_Witness ==
    \E t \in Tasks :
        /\ pc[t] = "loop"
        /\ idx[t] = NumTypes + 1
        /\ NumTypes = 2
        /\ \E k \in DOMAIN calls[t] :
              calls[t][k].pos = 1 /\ calls[t][k].outcome = "raise"
        /\ \E k \in DOMAIN calls[t] :
              calls[t][k].pos = 2 /\ calls[t][k].outcome = "ok"
        /\ Len(errors[t]) = 1

(* ---- C8 ----------------------------------------------------------- *)
\* C8: collecting a returned result adds one to success_count exactly when
\* its status is success and one to failed_count when it is partial or
\* failed, and appends the result with its status unchanged.
C8_TallyByStatus ==
    [][\A t \in Tasks :
          (pc[t] = "returned" /\ pc'[t] = "collected") =>
              /\ results' = Append(results, task_result[t])
              /\ success_count' = success_count
                    + (IF task_result[t].status = "success" THEN 1 ELSE 0)
              /\ failed_count' = failed_count
                    + (IF task_result[t].status \in {"partial", "failed"}
                       THEN 1 ELSE 0)]_vars

C8_Witness ==
    /\ mainpc = "done"
    /\ success_count = 1
    /\ failed_count = 1
    /\ \E i \in DOMAIN results : results[i].status = "partial"
    /\ \E i \in DOMAIN results : results[i].status = "success"

(* ---- C9 ----------------------------------------------------------- *)
\* C9: collecting a task that raised gives the error to the error handler
\* (one failure with the raw message in the Monitor), appends a synthetic
\* failed result for that symbol, adds one to failed_count only, and the
\* run goes on collecting.
C9_TaskExceptionCollected ==
    [][\A t \in Tasks :
          (pc[t] = "raised" /\ pc'[t] = "collected") =>
              /\ results' = Append(results,
                    [stock_code |-> CodeOf(t), status |-> "failed",
                     error_message |-> <<"task_exception">>,
                     analysis_data |-> EmptyData])
              /\ failed_count' = failed_count + 1
              /\ success_count' = success_count
              /\ mainpc' = "collecting"
              /\ enable_monitoring =>
                    /\ monitor'.failed_stocks = monitor.failed_stocks + 1
                    /\ monitor'.completed_stocks = monitor.completed_stocks
                    /\ monitor'.error_log = Append(monitor.error_log,
                          [stock_code |-> CodeOf(t), error |-> <<"raw">>])]_vars

C9_Witness ==
    /\ mainpc = "done"
    /\ enable_monitoring
    /\ Len(results) >= 2
    /\ results[1].error_message = <<"task_exception">>
    /\ results[2].status = "success"

(* ---- C10 ---------------------------------------------------------- *)
\* C10: on the same symbols and the same deterministic stubs, a run on one
\* worker and a run on any pool size both end with a result for every
\* symbol, the same success_count and failed_count, and the same number of
\* results of each status for each symbol.
C10_PoolSizeIndependent ==
    /\ mainpc = "done" => Len(results) = Len(config.stock_codes)
    /\ (mode = "second" /\ mainpc = "done") =>
          /\ success_count = ref.success_count
          /\ failed_count = ref.failed_count
          /\ \A c \in Codes, st \in Statuses :
                CountCodeStatus(results, c, st) = ref.tally[c][st]

C10_Witness ==
    /\ mode = "second"
    /\ mainpc = "done"
    /\ config.max_workers >= 2
    /\ success_count >= 1
    /\ failed_count >= 1
    /\ results[1].stock_code # config.stock_codes[1]

(* ---- C11 ---------------------------------------------------------- *)
\* C11: the Monitor's lifecycle is one-way: once stop_monitoring has been
\* called the Monitor is never running again, whatever is called after it.
C11_OneWayLifecycle == stopped => ~monitor.is_running

(* ---- C12 ---------------------------------------------------------- *)
\* the fields the stats lock is said to guard
GuardedFields(m) == <<m.completed_stocks, m.failed_stocks, m.current_stock,
                      m.start_time, m.stock_times, m.error_log>>

\* C12: every step of a Monitor operation that writes a guarded field
\* (counters, current symbol, start time, timing map, error log) or reads
\* one (the timing map in _send_update, the fields in get_current_stats)
\* is taken by the thread that holds stats_lock.
C12_AccessUnderLock ==
    [][\A th \in Threads :
          (tpc'[th] # tpc[th]
             /\ \/ GuardedFields(monitor') # GuardedFields(monitor)
                \/ tpc[th] = "send"
                \/ tpc[th] \in StatsPositions)
          => lock = th]_vars

(* ---- C13 ---------------------------------------------------------- *)
\* C13: the (total, completed, failed, current symbol) values of a
\* snapshot returned by get_current_stats are values the Monitor held
\* together at one instant during the call, under any interleaving with
\* other threads' calls.
C13_SnapshotConsistent ==
    \A th \in Threads :
        tpc[th] = "stats_return" =>
            <<snap[th].total_stocks, snap[th].completed_stocks,
              snap[th].failed_stocks, snap[th].current_stock>> \in seen[th]

C13_Witness ==
    \E th \in Threads :
        /\ tpc[th] = "stats_return"
        /\ snap[th].completed_stocks = 1
        /\ snap[th].current_stock # ""
        /\ \E other \in Threads \ {th} : tpc[other] # "idle"

(* ---- C14 ---------------------------------------------------------- *)
\* C14: the body of update_stock_complete(symbol, success, error) adds one
\* to completed_stocks and nothing to the log when success is true, adds
\* one to failed_stocks and one entry for the symbol to the log when it is
\* false, and does so whether or not the symbol's start was recorded; the
\* timing map of a symbol never started is left alone.
C14_CompleteCountsOnce ==
    [][\A th \in Threads :
          (tpc[th] = "complete_body" /\ tpc'[th] # "complete_body") =>
              /\ monitor'.completed_stocks = monitor.completed_stocks
                    + (IF arg[th].success THEN 1 ELSE 0)
              /\ monitor'.failed_stocks = monitor.failed_stocks
                    + (IF arg[th].success THEN 0 ELSE 1)
              /\ monitor'.error_log =
                    IF arg[th].success THEN monitor.error_log
                    ELSE Append(monitor.error_log,
                                [stock_code |-> arg[th].code, error |-> <<"raw">>])
              /\ monitor.stock_times[arg[th].code] = "none"
                    => monitor'.stock_times = monitor.stock_times]_vars

C14_Witness ==
    /\ mode = "monitor"
    /\ monitor.failed_stocks = 1
    /\ monitor.completed_stocks = 1
    /\ Len(monitor.error_log) = 1
    /\ \A c \in Codes : monitor.stock_times[c] = "none"

(* ---- C15 ---------------------------------------------------------- *)
\* C15: over any sequence of Monitor operations completed_stocks,
\* failed_stocks and the length of error_log never decrease, and the
\* entries already in error_log stay as they are.
C15_MonotoneAppendOnly ==
    [][/\ monitor'.completed_stocks >= monitor.completed_stocks
       /\ monitor'.failed_stocks >= monitor.failed_stocks
       /\ Len(monitor'.error_log) >= Len(monitor.error_log)
       /\ SubSeq(monitor'.error_log, 1, Len(monitor.error_log))
              = monitor.error_log]_vars

C15_Witness ==
    /\ mode = "monitor"
    /\ Len(monitor.error_log) = 2
    /\ monitor.error_log[1].stock_code # monitor.error_log[2].stock_code
    /\ monitor.is_running

(* ---- C16 ---------------------------------------------------------- *)
\* C16: in every snapshot estimated_remaining is elapsed / completed *
\* (total - completed - failed) when a symbol has completed, zero when none
\* has, and never negative.
C16_EstimatedRemaining ==
    \A th \in Threads :
        tpc[th] = "stats_return" =>
            LET st == snap[th]
                est == st.estimated_remaining
            IN /\ est.den > 0
               /\ IF st.completed_stocks > 0
                  THEN est.num * st.completed_stocks
                          = est.den * st.elapsed_time
                              * (st.total_stocks - st.completed_stocks
                                    - st.failed_stocks)
                  ELSE est.num = 0
               /\ est.num >= 0

(* ---- C17 ---------------------------------------------------------- *)
\* C17: a callback that raises is swallowed by _send_update: the call
\* returns to its caller and the Monitor's fields stay as the operation
\* left them before the callback ran.
C17_CallbackSwallowed ==
    [][\A th \in Threads :
          (tpc[th] = "callback" /\ tpc'[th] # "callback") =>
              /\ tpc'[th] = "idle"
              /\ monitor' = monitor
              /\ lock' = lock]_vars

C17_Witness ==
    /\ callback = "raising"
    /\ \A th \in Threads : tpc[th] = "idle"
    /\ monitor.failed_stocks = 1
    /\ Len(monitor.error_log) = 1
    /\ monitor.completed_stocks = 1
    /\ stopped

(* ---- C18 ---------------------------------------------------------- *)
\* the message, lower-cased, contains one of the keywords
Mentions(e, keywords) == \E k \in keywords : Contains(k, lower(e))

\* the category the specification gives a message
CategoryOf(e) ==
    IF Mentions(e, {kw_network, kw_connection, kw_timeout, kw_http})
    THEN "network_error"
    ELSE IF Mentions(e, {kw_data, kw_parse, kw_format, kw_empty})
    THEN "data_error"
    ELSE IF Mentions(e, {kw_ai, kw_llm, kw_openai, kw_model})
    THEN "ai_error"
    ELSE "unknown_error"

\* C18: the classifier gives a message the category of the first keyword
\* set, in the order network, data, ai, that it mentions, case-insensitively,
\* and unknown when it mentions none; handle_error returns that category's
\* policy, the network retry suggestion for 'connection refused'.
C18_ClassifierPriority ==
    /\ verdict.call = "classify" => verdict.error_type = CategoryOf(error)
    /\ verdict.call = "handle" =>
          /\ verdict.policy.error_type = CategoryOf(error)
          /\ Contains(kw_connection \o <<" ">> \o <<"r", "e", "f", "u", "s", "e", "d">>,
                      lower(error))
                => /\ verdict.policy.error_type = "network_error"
                   /\ verdict.policy.suggestion = "retry_network"
                   /\ verdict.policy.should_retry

C18_Witness ==
    /\ verdict.call = "handle"
    /\ error = word_Connection \o word_refused
    /\ verdict.policy.suggestion = "retry_network"

(* ---- C19 ---------------------------------------------------------- *)
\* C19: whatever the message, _classify_error never returns timeout_error
\* and handle_error never returns the timeout policy.
C19_TimeoutUnreachable ==
    /\ verdict.call = "classify" => verdict.error_type # "timeout_error"
    /\ verdict.call = "handle" =>
          /\ verdict.policy.error_type # "timeout_error"
          /\ verdict.policy.suggestion # "retry_timeout"

C19_Witness ==
    /\ verdict.call = "handle"
    /\ error = word_TIMEOUT
    /\ verdict.policy.error_type = "network_error"

StepRank(name) ==
    CASE name = "stop_monitoring" -> 1
      [] name = "save_monitor_log" -> 2
      [] name = "summary_stats" -> 3
      [] name = "assemble" -> 4
      [] name = "individual_json" -> 5
      [] name = "summary_csv" -> 6
      [] name = "detailed_json" -> 7

StepsNamed(steps, name) == {i \in DOMAIN steps : steps[i].step = name}

\* C21: the Monitor is stopped and the tail steps are taken only when
\* every task has been collected, and the steps come in the order stop
\* Monitor, monitor log, statistics, BatchAnalysisResult, per-symbol
\* artifacts, summary artifacts.
C21_TailAfterAllTasks ==
    [][(trail' # trail /\ trail' # <<>>)
         \/ (enable_monitoring /\ monitor.is_running /\ ~monitor'.is_running)
       => /\ \A t \in Tasks : pc[t] = "collected"
          /\ \A i, j \in DOMAIN trail' :
                i < j => StepRank(trail'[i].step) <= StepRank(trail'[j].step)
          /\ Cardinality(StepsNamed(trail', "summary_stats")) = 1
          /\ Cardinality(StepsNamed(trail', "assemble")) = 1
          /\ Cardinality(StepsNamed(trail', "stop_monitoring"))
                = (IF enable_monitoring THEN 1 ELSE 0)
          /\ enable_monitoring => ~monitor'.is_running]_vars

C21_Witness ==
    /\ mainpc = "done"
    /\ enable_monitoring
    /\ config.max_workers = 2
    /\ Len(results) = 2
    /\ Len(trail) = 8
    /\ trail[1].step = "stop_monitoring"
    /\ trail[3].step = "summary_stats"

(* ---- C22 ---------------------------------------------------------- *)
\* C22: whichever artifact writes fail, batch_analyze returns with the
\* results and the two counts it had when the pool drained, and every
\* artifact write is attempted: the monitor log when monitoring is on, one
\* JSON per result that has payloads, the summary CSV and the detailed JSON.
C22_WriteFailureCaught ==
    [][mainpc = "collecting" /\ mainpc' = "done"
       => /\ results' = results
          /\ success_count' = success_count
          /\ failed_count' = failed_count
          /\ Cardinality(StepsNamed(trail', "save_monitor_log"))
                = (IF enable_monitoring THEN 1 ELSE 0)
          /\ \A i \in DOMAIN results :
                HasData(results[i]) =>
                    \E k \in StepsNamed(trail', "individual_json") :
                        trail'[k].target = results[i].stock_code
          /\ Cardinality(StepsNamed(trail', "individual_json"))
                = Cardinality({i \in DOMAIN results : HasData(results[i])})
          /\ Cardinality(StepsNamed(trail', "summary_csv")) = 1
          /\ Cardinality(StepsNamed(trail', "detailed_json")) = 1]_vars

C22_Witness ==
    /\ mainpc = "done"
    /\ enable_monitoring
    /\ Len(results) = 2
    /\ success_count = 1
    /\ failed_count = 1
    /\ Len(trail) = 8
    /\ trail[2].outcome = "fail"
    /\ trail[5].outcome = "fail"
    /\ trail[7].outcome = "fail"
    /\ trail[8].step = "detailed_json"

(* ---- C23 ---------------------------------------------------------- *)
IsErrorKeyed(c) == IsTypeCall(c) /\ c.outcome = "errkey"
NumErrorKeyed(t) == Len(SelectSeq(calls[t], IsErrorKeyed))

\* C23: when no collaborator raised and every requested tag is a known
\* type, a symbol whose payloads all carry an 'error' key is "failed", and
\* one with some but not all payloads carrying it is "partial".
C23_ErrorKeyIsFailure ==
    \A t \in Tasks :
        (/\ pc[t] = "returned"
         /\ \A j \in 1..NumTypes : config.analysis_types[j] \in KnownTypes
         /\ NumRaised(t) = 0
         /\ NumErrorKeyed(t) > 0)
        => task_result[t].status =
              (IF NumErrorKeyed(t) = NumTypes THEN "failed" ELSE "partial")

(* ---- C24 ---------------------------------------------------------- *)
\* the results that have a summary with a positive price
Priced(rs) ==
    {i \in DOMAIN rs : rs[i].summary.present /\ rs[i].summary.current_price > 0}

\* C24: in the statistics of a result list, low counts the results with
\* 0 < p < 20, medium those with 20 <= p < 100, high those with p >= 100,
\* and the three add up to the number of results with a summary and p > 0.
C24_PriceBuckets ==
    summary_stats.computed =>
        /\ summary_stats.price_ranges["low"] =
              Cardinality({i \in Priced(results) :
                  results[i].summary.current_price < 20})
        /\ summary_stats.price_ranges["medium"] =
              Cardinality({i \in Priced(results) :
                  /\ 20 <= results[i].summary.current_price
                  /\ results[i].summary.current_price < 100})
        /\ summary_stats.price_ranges["high"] =
              Cardinality({i \in Priced(results) :
                  results[i].summary.current_price >= 100})
        /\ summary_stats.price_ranges["low"]
              + summary_stats.price_ranges["medium"]
              + summary_stats.price_ranges["high"]
                 = Cardinality(Priced(results))

C24_Witness ==
    /\ summary_stats.computed
    /\ Len(results) = 2
    /\ results[1].summary.current_price = 20
    /\ results[2].summary.current_price = 0
    /\ summary_stats.price_ranges["medium"] = 1
    /\ summary_stats.price_ranges["low"] = 0

(* ---- C25 ---------------------------------------------------------- *)
\* C25: ai_analysis_coverage is the fraction (results whose summary has
\* has_ai_analysis) * 100 / (number of results), computed without a zero
\* denominator, and it is 0 for the empty list.
C25_AiCoverage ==
    summary_stats.computed =>
        /\ summary_stats.ai_analysis_coverage.den # 0
        /\ results = <<>> => summary_stats.ai_analysis_coverage.num = 0
        /\ results # <<>> =>
              summary_stats.ai_analysis_coverage.num * Len(results)
                 = Cardinality({i \in DOMAIN results :
                        /\ results[i].summary.present
                        /\ results[i].summary.has_ai_analysis})
                   * 100 * summary_stats.ai_analysis_coverage.den

C25_Witness ==
    /\ summary_stats.computed
    /\ Len(results) = 2
    /\ results[1].summary.has_ai_analysis
    /\ ~results[2].summary.present
    /\ summary_stats.ai_analysis_coverage = Ratio(100, 2)

C25_WitnessEmpty ==
    /\ summary_stats.computed
    /\ results = <<>>
    /\ summary_stats.ai_analysis_coverage = Ratio(0, 1)

(* ---- C26 ---------------------------------------------------------- *)
\* C26: a call of report_progress made less than report_interval after the
\* last report reads no snapshot and leaves last_report_time alone; a
\* snapshot is read only after should_report held; a report sets
\* last_report_time to the clock; two reports are at least report_interval
\* apart.
C26_ReportInterval ==
    [][/\ (reporter.pos = "idle"
             /\ reporter' # reporter
             /\ now - reporter.last_report_time < report_interval)
          => /\ reporter'.reads = reporter.reads
             /\ reporter'.last_report_time = reporter.last_report_time
             /\ reporter'.reports = reporter.reports
             /\ reporter'.pos = "idle"
       /\ reporter'.reads # reporter.reads
          => reporter.checked_at - reporter.last_report_time >= report_interval
       /\ reporter'.reports # reporter.reports
          => reporter'.last_report_time = now
       /\ \A i, j \in DOMAIN reporter'.reports :
             i < j => reporter'.reports[j] - reporter'.reports[i]
                         >= report_interval]_vars

C26_Witness ==
    /\ Len(reporter.reports) = 2
    /\ reporter.reports[2] - reporter.reports[1] = report_interval
    /\ reporter.last_call = "skipped"
    /\ reporter.reads = 2

(* ---- C27 ---------------------------------------------------------- *)
IsCompleteLabel(label) == label \in {"completed", "failed"}

\* C27: with monitoring enabled, the notifications a returned task sent to
\* the Monitor begin with the symbol start, which precedes every
\* collaborator call, and contain exactly one update_stock_complete, which
\* is the last notification.
C27_OneCompleteNotification ==
    \A t \in Tasks :
        (Recording /\ enable_monitoring /\ pc[t] = "returned") =>
            /\ updates[t] # <<>>
            /\ Head(updates[t]) = "started"
            /\ Len(SelectSeq(updates[t], IsCompleteLabel)) = 1
            /\ IsCompleteLabel(updates[t][Len(updates[t])])

(* ---- C28 ---------------------------------------------------------- *)
\* C28: when a task returns normally with monitoring enabled, the Monitor
\* counts it as completed if its status is "success" or "partial" and as
\* failed if its status is "failed"; when a "partial" result is collected it
\* adds one to failed_count and nothing to success_count.
C28_PartialCompletedButFailed ==
    [][\A t \in Tasks :
          /\ (enable_monitoring /\ pc[t] = "loop" /\ pc'[t] = "returned") =>
                /\ task_result'[t].status \in {"success", "partial"} =>
                      /\ monitor'.completed_stocks = monitor.completed_stocks + 1
                      /\ monitor'.failed_stocks = monitor.failed_stocks
                /\ task_result'[t].status = "failed" =>
                      /\ monitor'.failed_stocks = monitor.failed_stocks + 1
                      /\ monitor'.completed_stocks = monitor.completed_stocks
          /\ (pc[t] = "returned" /\ pc'[t] = "collected"
                /\ task_result[t].status = "partial") =>
                /\ failed_count' = failed_count + 1
                /\ success_count' = success_count]_vars

C28_Witness ==
    /\ mainpc = "done"
    /\ enable_monitoring
    /\ Len(results) = 2
    /\ results[1].status = "partial"
    /\ results[2].status = "partial"
    /\ failed_count = 2
    /\ success_count = 0
    /\ monitor.completed_stocks = 2

(* ---- C29 ---------------------------------------------------------- *)
\* C29: a result, returned by a task or collected by the run, has no
\* error message exactly when its status is "success".
C29_MessageIffNotSuccess ==
    /\ \A i \in DOMAIN results :
          (results[i].error_message = <<>>) <=> (results[i].status = "success")
    /\ \A t \in Tasks :
          pc[t] = "returned" =>
              ((task_result[t].error_message = <<>>)
                  <=> (task_result[t].status = "success"))

C29_Witness ==
    /\ mainpc = "done"
    /\ Len(results) = 2
    /\ results[1].status = "partial"
    /\ results[1].error_message # <<>>
    /\ results[2].status = "success"
    /\ results[2].error_message = <<>>

(* ---- C30 ---------------------------------------------------------- *)
\* the positions of analysis_types holding a tag outside the closed set
UnknownAt == {j \in 1..NumTypes : config.analysis_types[j] \notin KnownTypes}

\* C30: for a task that returned normally, no collaborator was called at
\* the position of an unknown tag, the recorded errors are those of the
\* known types that raised, the status follows the rule with the unknown
\* tags counted in the number of requested types, and with only unknown
\* tags or no tag the result is "success" with no payload and no message.
C30_UnknownTagSkipped ==
    \A t \in Tasks :
        (pc[t] = "returned" /\ HasCall(t, "summary", "ok")) =>
            /\ \A j \in UnknownAt : CallsAt(t, j) = {}
            /\ Len(task_result[t].error_message) = NumRaised(t)
            /\ task_result[t].status = StatusRule(NumRaised(t), NumTypes)
            /\ UnknownAt = 1..NumTypes =>
                  /\ task_result[t].status = "success"
                  /\ task_result[t].analysis_data = EmptyData
                  /\ task_result[t].error_message = <<>>

C30_Witness ==
    \E t \in Tasks :
        /\ pc[t] = "returned"
        /\ config.analysis_types = <<"basic", "other">>
        /\ HasCall(t, "basic", "raise")
        /\ task_result[t].status = "partial"

C30_WitnessOnlyUnknown ==
    \E t \in Tasks :
        /\ pc[t] = "returned"
        /\ config.analysis_types = <<"other">>
        /\ HasCall(t, "summary", "ok")
        /\ task_result[t].status = "success"
        /\ task_result[t].analysis_data = EmptyData

====
